---- MODULE Spec2Model ----
(***************************************************************************)
(* Model of DependencyExplorer (src/dependencyExplorer.js): the requirement *)
(* normaliser, the asynchronous dependency-tree build against the package   *)
(* registry, the stats calculation and the page's three panels.             *)
(*                                                                          *)
(* Strings are sequences of one-character strings, so that split, trim,     *)
(* toLowerCase and replace are computed character by character.             *)
(***************************************************************************)
EXTENDS Integers, Sequences, FiniteSets, TLC

VARIABLES
    reg,          \* the registry: package name -> info.requires_dist
    searches,     \* the searchPackage calls made so far, in start order
    loading,      \* this.loading.style.display = "block"
    loadingText,  \* this.loading.textContent
    error,        \* this.error.style.display = "block"
    errorText,    \* this.error.textContent
    results,      \* this.results.style.display = "block"
    rendered,     \* what displayResults last put into summary/statsGrid/tree
    urlPackage,   \* the "package" parameter of window.location
    requiresDist, \* input of an isolated extractRequiredDependencies call
    extracted     \* its return value

vars == <<reg, searches, loading, loadingText, error, errorText, results,
          rendered, urlPackage, requiresDist, extracted>>

pageVars == <<reg, searches, loading, loadingText, error, errorText, results,
              rendered, urlPackage>>

normVars == <<requiresDist, extracted>>

(***************************************************************************)
(* Bounds                                                                   *)
(***************************************************************************)
MaxLen == 3        \* longest generated raw specifier
MaxList == 2       \* longest requires_dist list of the isolated call
MaxSearches == 2   \* searchPackage calls on the page
ChainLen == 6      \* packages of the linear chain registry

(***************************************************************************)
(* Strings                                                                  *)
(***************************************************************************)
Uppers == <<"A", "B", "C", "D", "E", "F", "G", "H", "N">>
Lowers == <<"a", "b", "c", "d", "e", "f", "g", "h", "n">>

Whitespace == {" "}

Max(S) == CHOOSE x \in S : \A y \in S : y <= x
Min(S) == CHOOSE x \in S : \A y \in S : x <= y

\* String.prototype.includes
Includes(s, sub) ==
    \E i \in 1..(Len(s) - Len(sub) + 1) : SubSeq(s, i, i + Len(sub) - 1) = sub

\* s.split(sep)[0] where sep matches one character of seps
SplitFirst(s, seps) ==
    LET hits == {i \in 1..Len(s) : s[i] \in seps}
    IN  IF hits = {} THEN s ELSE SubSeq(s, 1, Min(hits) - 1)

\* String.prototype.trim
Trim(s) ==
    LET keep == {i \in 1..Len(s) : s[i] \notin Whitespace}
    IN  IF keep = {} THEN <<>> ELSE SubSeq(s, Min(keep), Max(keep))

LowerChar(c) ==
    IF \E i \in 1..Len(Uppers) : Uppers[i] = c
    THEN Lowers[CHOOSE i \in 1..Len(Uppers) : Uppers[i] = c]
    ELSE c

\* String.prototype.toLowerCase
ToLowerCase(s) == [i \in 1..Len(s) |-> LowerChar(s[i])]

\* s.replace(/\s*\(.*/g, ""): the leftmost match starts at the whitespace
\* run in front of the first "(" and runs to the end of the string (the
\* strings here hold no line terminator, so ".*" takes all that follows)
StripParen(s) ==
    LET opens == {i \in 1..Len(s) : s[i] = "("}
    IN  IF opens = {} THEN s
        ELSE LET o == Min(opens)
                 starts == {p \in 1..o : \A k \in p..(o - 1) : s[k] \in Whitespace}
             IN  SubSeq(s, 1, Min(starts) - 1)

ExtraMarker == <<"e", "x", "t", "r", "a", " ", "=", "=">>

VersionChars == {"<", ">", "!", "="}

(***************************************************************************)
(* extractRequiredDependencies                                             *)
(***************************************************************************)
\* packageData.info as far as the code reads it: requires_dist is a list or
\* is missing (undefined or null)
Info(list) == [present |-> TRUE, requires_dist |-> list]
InfoAbsent == [present |-> FALSE, requires_dist |-> <<>>]

\* the .map callback: one raw requirement to a name
MapReq(req) ==
    StripParen(ToLowerCase(
        SplitFirst(Trim(SplitFirst(Trim(SplitFirst(req, {";"})), VersionChars)),
                   {"["})))

\* [...new Set(list)]: insertion order, first occurrence kept
RECURSIVE SetOrder(_)
SetOrder(s) ==
    IF s = <<>> THEN <<>>
    ELSE LET init == SetOrder(SubSeq(s, 1, Len(s) - 1))
             last == s[Len(s)]
         IN  IF \E i \in 1..Len(init) : init[i] = last THEN init
             ELSE Append(init, last)

NotExtra(req) == ~Includes(req, ExtraMarker)
NonEmpty(pkg) == Len(pkg) > 0

ExtractNoSet(info) ==
    LET requiresDistList == IF info.present THEN info.requires_dist ELSE <<>>
        kept == SelectSeq(requiresDistList, NotExtra)
        names == [i \in 1..Len(kept) |-> MapReq(kept[i])]
    IN  SelectSeq(names, NonEmpty)

extractRequiredDependencies(info) ==
    LET requiresDistList == IF info.present THEN info.requires_dist ELSE <<>>
        kept == SelectSeq(requiresDistList, NotExtra)
        names == [i \in 1..Len(kept) |-> MapReq(kept[i])]
    IN  SetOrder(SelectSeq(names, NonEmpty))

(***************************************************************************)
(* Dependency trees and stats                                               *)
(***************************************************************************)
Node(n, ch) == [name |-> n, children |-> ch]
Leaf(n) == Node(n, <<>>)

RECURSIVE calculateMaxDepth(_)
calculateMaxDepth(node) ==
    IF Len(node.children) = 0 THEN 1
    ELSE 1 + Max({calculateMaxDepth(node.children[i]) :
                    i \in 1..Len(node.children)})

\* the names countNodes adds to allPackages
RECURSIVE countNodes(_)
countNodes(node) ==
    {node.name} \cup
    UNION {countNodes(node.children[i]) : i \in 1..Len(node.children)}

RECURSIVE NodeCount(_)
NodeCount(node) ==
    IF Len(node.children) = 0 THEN 1
    ELSE LET sizes == [i \in 1..Len(node.children) |-> NodeCount(node.children[i])]
             Sum[k \in 0..Len(sizes)] == IF k = 0 THEN 0 ELSE Sum[k - 1] + sizes[k]
         IN  1 + Sum[Len(sizes)]

calculateStatsPerNode(tree) ==
    [totalDependencies |-> NodeCount(tree) - 1,
     maxDepth |-> calculateMaxDepth(tree) - 1,
     directDependencies |-> Len(tree.children)]

calculateStats(tree) ==
    [totalDependencies |-> Cardinality(countNodes(tree)) - 1,
     maxDepth |-> calculateMaxDepth(tree) - 1,
     directDependencies |-> Len(tree.children)]

(***************************************************************************)
(* buildDependencyTree, as the frames of its pending calls.  A frame is a   *)
(* call suspended at "await fetch(dep)" for dep = deps[idx].                *)
(***************************************************************************)
DepthLimit == 3

BaseCaseNoVisited(packageName, depth, visited) == depth > DepthLimit

BaseCaseDeeper(packageName, depth, visited) ==
    depth > DepthLimit + 1 \/ packageName \in visited

BaseCaseShallower(packageName, depth, visited) ==
    depth > DepthLimit - 1 \/ packageName \in visited

BaseCase(packageName, depth, visited) ==
    depth > DepthLimit \/ packageName \in visited

\* a call returned node: the caller pushes it and goes on with its loop, and
\* returns itself when the loop is over
RECURSIVE Return(_, _)
Return(stack, node) ==
    IF stack = <<>> THEN [stack |-> <<>>, tree |-> <<node>>]
    ELSE LET n == Len(stack)
             g == [stack[n] EXCEPT !.children = Append(@, node), !.idx = @ + 1]
         IN  IF g.idx > Len(g.deps)
             THEN Return(SubSeq(stack, 1, n - 1), Node(g.name, g.children))
             ELSE [stack |-> [stack EXCEPT ![n] = g], tree |-> <<>>]

\* buildDependencyTree(packageName, dependencies, depth, visited) up to its
\* first await
Call(stack, packageName, dependencies, depth, visited) ==
    IF BaseCase(packageName, depth, visited)
    THEN Return(stack, Leaf(packageName))
    ELSE IF dependencies = <<>>
    THEN Return(stack, Node(packageName, <<>>))
    ELSE [stack |-> Append(stack, [name |-> packageName,
                                   deps |-> dependencies,
                                   idx |-> 1,
                                   depth |-> depth,
                                   visited |-> visited \cup {packageName},
                                   children |-> <<>>]),
          tree |-> <<>>]

\* the else branch and the catch block of the loop body
ChildFailedBreaks(stack, dep) ==
    LET n == Len(stack)
    IN  Return(SubSeq(stack, 1, n - 1), Node(stack[n].name, stack[n].children))

ChildFailed(stack, dep) == Return(stack, Leaf(dep))

\* position in the final tree of the dependency the top frame is fetching
PathOf(stack) == [k \in 1..Len(stack) |-> stack[k].idx]

(***************************************************************************)
(* The registry and its responses                                           *)
(***************************************************************************)
ExceptionMsgs == {<<"Failed to fetch">>, <<"Unexpected end of JSON input">>}

NotFoundMsg(packageName) ==
    <<"Package \"">> \o packageName \o <<"\" not found on PyPI">>

\* the registry matches names case-insensitively
Known(name) == ToLowerCase(name) \in DOMAIN reg

\* what "await fetch(...); await response.json()" can come back with
Responses(name) ==
    {[kind |-> "notok", info |-> InfoAbsent, msg |-> <<>>]}
    \cup {[kind |-> "throw", info |-> InfoAbsent, msg |-> m] : m \in ExceptionMsgs}
    \cup IF Known(name)
         THEN {[kind |-> "ok", info |-> reg[ToLowerCase(name)], msg |-> <<>>]}
         ELSE {}

\* fetchPackageData up to the call of buildDependencyTree
RootOutcomeNoStatusCheck(packageName, r) ==
    IF r.kind = "throw"
    THEN [kind |-> "error", msg |-> r.msg, deps |-> <<>>]
    ELSE [kind |-> "data", msg |-> <<>>,
          deps |-> extractRequiredDependencies(r.info)]

RootOutcomeGeneric(packageName, r) ==
    IF r.kind = "ok"
    THEN [kind |-> "data", msg |-> <<>>,
          deps |-> extractRequiredDependencies(r.info)]
    ELSE [kind |-> "error", msg |-> NotFoundMsg(packageName), deps |-> <<>>]

RootOutcome(packageName, r) ==
    IF r.kind = "notok"
    THEN [kind |-> "error", msg |-> NotFoundMsg(packageName), deps |-> <<>>]
    ELSE IF r.kind = "throw"
    THEN [kind |-> "error", msg |-> r.msg, deps |-> <<>>]
    ELSE [kind |-> "data", msg |-> <<>>,
          deps |-> extractRequiredDependencies(r.info)]

(***************************************************************************)
(* Registries the model is run against                                      *)
(***************************************************************************)
SeqsUpTo(S, n) == UNION {[1..k -> S] : k \in 0..n}

ChainNames == {<<Lowers[i]>> : i \in 1..ChainLen}

\* a -> b -> c -> ... : each package requires the next one only
ChainReg ==
    [n \in ChainNames |->
        LET i == CHOOSE k \in 1..ChainLen : n = <<Lowers[k]>>
        IN  IF i < ChainLen
            THEN Info(<< <<Lowers[i + 1], ">", "=", "1">> >>)
            ELSE InfoAbsent]

\* a -> b, c ; b -> d ; c -> d ; d has an optional requirement only
DiamondReg ==
    (<<"a">> :> Info(<< <<"b">>, <<"C", "[", "x", "]", ">", "=", "2">> >>)) @@
    (<<"b">> :> Info(<< <<"d">> >>)) @@
    (<<"c">> :> Info(<< <<"d", " ", "(", ">", "=", "1", ")">> >>)) @@
    (<<"d">> :> Info(<< <<"e", ";", " ", "e", "x", "t", "r", "a", " ", "=", "=",
                          " ", "'", "x", "'">> >>)) @@
    (<<"e">> :> InfoAbsent)

\* as DiamondReg, with d -> e
DeepDiamondReg ==
    (<<"a">> :> Info(<< <<"b">>, <<"c">> >>)) @@
    (<<"b">> :> Info(<< <<"d">> >>)) @@
    (<<"c">> :> Info(<< <<"d">> >>)) @@
    (<<"d">> :> Info(<< <<"e">> >>)) @@
    (<<"e">> :> InfoAbsent)

\* a -> b -> a
CycleReg ==
    (<<"a">> :> Info(<< <<"b">> >>)) @@
    (<<"b">> :> Info(<< <<"A", ";", " ", "o", "s">>, <<"a", "<", "2">> >>))

\* a -> b and b without requirements
PairReg ==
    (<<"a">> :> Info(<< <<"b">> >>)) @@ (<<"b">> :> Info(<<>>))

\* every registry of two packages whose lists have at most two entries, and
\* every registry of three packages with at most one requirement each
SmallRegs ==
    {(<<"a">> :> Info(x)) @@ (<<"b">> :> Info(y)) :
        x \in SeqsUpTo({<<"a">>, <<"b">>}, 2),
        y \in SeqsUpTo({<<"a">>, <<"b">>}, 2)}
    \cup
    {(<<"a">> :> Info(x)) @@ (<<"b">> :> Info(y)) @@ (<<"c">> :> Info(z)) :
        x \in SeqsUpTo({<<"a">>, <<"b">>, <<"c">>}, 1),
        y \in SeqsUpTo({<<"a">>, <<"b">>, <<"c">>}, 1),
        z \in SeqsUpTo({<<"a">>, <<"b">>, <<"c">>}, 1)}

TreeRegistries ==
    {ChainReg, DiamondReg, DeepDiamondReg, CycleReg} \cup SmallRegs

PageRegistries == {CycleReg, PairReg}

\* names a user searches for: the registry's, one in capitals, a missing one
RootNames(r) == DOMAIN r \cup {<<"A">>, <<"z">>}

(***************************************************************************)
(* The page                                                                 *)
(***************************************************************************)
\* one call of searchPackage; failed, depFetches, rootResp, thrown and
\* overlapped record what happened to it
NewSearch(packageName, inFlight) ==
    [name |-> packageName, pc |-> "root", stack |-> <<>>, tree |-> <<>>,
     stats |-> <<>>, outcome |-> "none", message |-> <<>>,
     rootResp |-> "none", thrown |-> <<>>, failed |-> {}, depFetches |-> 0,
     overlapped |-> inFlight]

InFlight == {i \in DOMAIN searches : searches[i].pc # "done"}

\* constructor: initEvents, then initFromURL with or without ?package= ;
\* the three panels start hidden
Constructed(r, pkg) ==
    /\ reg = r
    /\ searches = IF pkg = <<>> THEN <<>> ELSE <<NewSearch(pkg, FALSE)>>
    /\ loading = (pkg # <<>>)
    /\ loadingText = pkg
    /\ error = FALSE
    /\ errorText = <<>>
    /\ results = FALSE
    /\ rendered = <<>>
    /\ urlPackage = pkg

NoCall == /\ requiresDist = InfoAbsent
          /\ extracted = <<>>

Init ==
    /\ \E r \in PageRegistries : \E pkg \in RootNames(r) \cup {<<>>} :
            Constructed(r, pkg)
    /\ NoCall

\* the page opened with ?package=pkg
InitTree ==
    /\ \E r \in TreeRegistries : \E pkg \in RootNames(r) : Constructed(r, pkg)
    /\ NoCall

\* searchPackage up to "await this.fetchPackageData(packageName)"
StartSearch(packageName) ==
    /\ Len(searches) < MaxSearches
    /\ IF packageName = <<>>
       THEN UNCHANGED pageVars
       ELSE /\ urlPackage' = packageName
            /\ loading' = TRUE
            /\ loadingText' = packageName
            /\ error' = FALSE
            /\ results' = FALSE
            /\ searches' = Append(searches, NewSearch(packageName, InFlight # {}))
            /\ UNCHANGED <<reg, errorText, rendered>>
    /\ UNCHANGED normVars

\* catch: showError(error.message); finally: hideLoading()
Fail(i, sr, msg) ==
    /\ searches' = [searches EXCEPT ![i] =
            [sr EXCEPT !.pc = "done", !.outcome = "error", !.message = msg]]
    /\ error' = TRUE
    /\ errorText' = msg
    /\ loading' = FALSE
    /\ UNCHANGED <<reg, loadingText, results, rendered, urlPackage>>

\* fetchPackageData returns; displayResults(data); finally: hideLoading()
Finish(i, sr, tree) ==
    LET data == [package |-> sr.name, tree |-> tree,
                 stats |-> calculateStats(tree)]
    IN  /\ searches' = [searches EXCEPT ![i] =
                [sr EXCEPT !.pc = "done", !.outcome = "results",
                           !.stack = <<>>, !.tree = <<tree>>,
                           !.stats = <<data.stats>>]]
        /\ rendered' = <<data>>
        /\ results' = TRUE
        /\ loading' = FALSE
        /\ UNCHANGED <<reg, loadingText, error, errorText, urlPackage>>

\* the build went on to its next await, or returned the tree.  Awaiting a
\* call that has already returned only takes microtasks, which run before any
\* other response or event is handled, so the step runs up to the next fetch.
Continue(i, sr, b) ==
    IF b.tree # <<>>
    THEN Finish(i, sr, b.tree[1])
    ELSE /\ searches' = [searches EXCEPT ![i] =
                [sr EXCEPT !.pc = "build", !.stack = b.stack,
                           !.depFetches = @ + 1]]
         /\ UNCHANGED <<reg, loading, loadingText, error, errorText, results,
                        rendered, urlPackage>>

\* the response to the root package's request arrives
RootResponse(i) ==
    /\ i \in DOMAIN searches
    /\ searches[i].pc = "root"
    /\ \E r \in Responses(searches[i].name) :
         LET o == RootOutcome(searches[i].name, r)
             sr == [searches[i] EXCEPT !.rootResp = r.kind, !.thrown = r.msg]
         IN  IF o.kind = "error"
             THEN Fail(i, sr, o.msg)
             ELSE Continue(i, sr, Call(<<>>, sr.name, o.deps, 0, {}))
    /\ UNCHANGED normVars

\* the response to a dependency's request arrives
DepResponse(i) ==
    /\ i \in DOMAIN searches
    /\ searches[i].pc = "build"
    /\ LET stack == searches[i].stack
           top == stack[Len(stack)]
           dep == top.deps[top.idx]
       IN  \E r \in Responses(dep) :
             IF r.kind = "ok"
             THEN Continue(i, searches[i],
                           Call(stack, dep, extractRequiredDependencies(r.info),
                                top.depth + 1, top.visited))
             ELSE Continue(i, [searches[i] EXCEPT
                                  !.failed = @ \cup {PathOf(stack)}],
                           ChildFailed(stack, dep))
    /\ UNCHANGED normVars

NextTree == \E i \in 1..MaxSearches : RootResponse(i) \/ DepResponse(i)

Next ==
    \/ \E packageName \in RootNames(reg) \cup {<<>>} : StartSearch(packageName)
    \/ \E i \in 1..MaxSearches : RootResponse(i)
    \/ \E i \in 1..MaxSearches : DepResponse(i)

Spec == Init /\ [][Next]_vars

SpecTree == InitTree /\ [][NextTree]_vars

\* every request is answered: each pending response step is eventually taken
FairSpecTree == SpecTree /\ WF_vars(NextTree)

(***************************************************************************)
(* extractRequiredDependencies called on its own                            *)
(***************************************************************************)
Alphabet == {"a", "B", " ", "(", "[", "=", ";"}

\* raw requirement strings as registries publish them
SampleReqs ==
{
    <<"f", "o", "o", "[", "b", "a", "r", "]", ">", "=", "1", ".", "0", ";",
      " ", "e", "x", "t", "r", "a", " ", "=", "=", " ", "'", "d", "e", "v",
      "'">>,
    <<"F", "o", "o", "-", "B", "a", "r", "[", "x", "]", ">", "=", "2", ".",
      "0", ",", "<", "3", ".", "0">>,
    <<" ", " ", " ">>,
    <<"n", "u", "m", "p", "y", " ", "(", ">", "=", "1", ".", "2", "0", ")">>,
    <<"N", "u", "m", "p", "y", "(", ">", "=", "1", ".", "2", "0", ")">>,
    <<"n", "u", "m", "p", "y">>,
    <<"a", " ", "[", "b", "]", " ", "(", "c", ")">>,
    <<"B", "(", "A", ")", " ", ";", " ", "e", "x", "t", "r", "a">>,
    <<"a", "b", "!", "=", "1", ";", " ", "e", "x", "t", "r", "a", " ", "=",
      "=", " ", "'", "x", "'">>,
    <<" ", " ", "A", "b", " ", " ", ">", "=", " ", "2", " ">>}

NormInputs ==
    {InfoAbsent}
    \cup {Info(<<req>>) : req \in SeqsUpTo(Alphabet, MaxLen)}
    \cup {Info(list) : list \in SeqsUpTo(SampleReqs, MaxList)}

InitNorm ==
    /\ Constructed(PairReg, <<>>)
    /\ requiresDist \in NormInputs
    /\ extracted = <<>>

ExtractCall ==
    /\ extracted = <<>>
    /\ extracted' = <<extractRequiredDependencies(requiresDist)>>
    /\ UNCHANGED <<requiresDist, pageVars>>

NextNorm == ExtractCall

SpecNorm == InitNorm /\ [][NextNorm]_vars

(***************************************************************************)
(* Reading finished trees                                                   *)
(***************************************************************************)
\* index paths of all nodes of a tree, <<>> for its root
RECURSIVE Paths(_)
Paths(node) ==
    {<<>>} \cup
    UNION {{<<i>> \o p : p \in Paths(node.children[i])} :
              i \in 1..Len(node.children)}

RECURSIVE NodeAt(_, _)
NodeAt(node, path) ==
    IF path = <<>> THEN node
    ELSE NodeAt(node.children[Head(path)], Tail(path))

AncestorNames(tree, path) ==
    {NodeAt(tree, SubSeq(path, 1, k)).name : k \in 0..(Len(path) - 1)}

ChildNames(node) == [k \in 1..Len(node.children) |-> node.children[k].name]

Done == {i \in DOMAIN searches : searches[i].pc = "done"}

Built == {i \in Done : searches[i].outcome = "results"}

TreeOf(i) == searches[i].tree[1]

StatsOf(i) == searches[i].stats[1]

(***************************************************************************)
(* The normaliser as the specification words it                             *)
(***************************************************************************)
\* the nine steps in their stated order; <<>> stands for "none"
NineSteps(raw) ==
    IF Includes(raw, ExtraMarker) THEN <<>>
    ELSE LET s2 == SplitFirst(raw, {";"})
             s3 == Trim(s2)
             s4 == SplitFirst(s3, VersionChars)
             s5 == Trim(s4)
             s6 == SplitFirst(s5, {"["})
             s7 == StripParen(s6)
             s8 == ToLowerCase(s7)
         IN  s8

RECURSIVE FirstSeen(_)
FirstSeen(s) ==
    IF s = <<>> THEN <<>>
    ELSE <<Head(s)>> \o FirstSeen(SelectSeq(Tail(s), LAMBDA x : x # Head(s)))

NineStepsList(info) ==
    LET raws == IF info.present THEN info.requires_dist ELSE <<>>
        names == [k \in 1..Len(raws) |-> NineSteps(raws[k])]
    IN  FirstSeen(SelectSeq(names, LAMBDA x : x # <<>>))

(***************************************************************************)
(* Claims                                                                   *)
(***************************************************************************)
\* a finished search of the head of the chain in which every fetch succeeded
ChainSearch(i) ==
    /\ reg = ChainReg
    /\ i \in Built
    /\ searches[i].name = <<"a">>
    /\ searches[i].failed = {}

\* C1 as stated: searching the head of a linear chain of at least six
\* packages, all fetches succeeding, yields stats.maxDepth = 3.
ChainMaxDepthThree ==
    \A i \in DOMAIN searches : ChainSearch(i) => StatsOf(i).maxDepth = 3

\* C1 amended: searching the head of a linear chain of at least six packages,
\* all fetches succeeding, yields stats.maxDepth = 4, however long the chain.
ChainMaxDepthFour ==
    \A i \in DOMAIN searches : ChainSearch(i) => StatsOf(i).maxDepth = 4

ChainSearched == \E i \in DOMAIN searches : ChainSearch(i)

\* every node whose name occurs among its ancestors is childless
CycleLeaves ==
    \A i \in Built : \A p \in Paths(TreeOf(i)) :
        NodeAt(TreeOf(i), p).name \in AncestorNames(TreeOf(i), p)
            => NodeAt(TreeOf(i), p).children = <<>>

\* C2: when every fetch is answered the build terminates, whatever cycles the
\* registry has, and a node whose name already occurs among its ancestors on
\* the path from the root has no children.
CycleSuppression ==
    /\ [](CycleLeaves)
    /\ <>(\A i \in DOMAIN searches : searches[i].pc = "done")

\* a finished tree of the registry a -> b -> a in which a recurs under b
CycleCut ==
    \E i \in Built :
        /\ reg = CycleReg
        /\ \E p \in Paths(TreeOf(i)) :
              /\ Len(p) = 2
              /\ NodeAt(TreeOf(i), p).name = TreeOf(i).name

\* a finished search of a in a diamond registry, every fetch succeeding
DiamondSearch(i, r) ==
    /\ reg = r
    /\ i \in Built
    /\ searches[i].name = <<"a">>
    /\ searches[i].failed = {}

\* C3: with a -> b, c and b -> d, c -> d the tree has its own d node under b
\* and under c (with d's subtree in both when d has one), while
\* totalDependencies is the number of distinct names minus the root:
\* totalDependencies = 3 and directDependencies = 2.
DiamondShapeAndStats ==
    \A i \in DOMAIN searches :
        /\ DiamondSearch(i, DiamondReg) =>
              /\ TreeOf(i) = Node(<<"a">>,
                                  <<Node(<<"b">>, <<Leaf(<<"d">>)>>),
                                    Node(<<"c">>, <<Leaf(<<"d">>)>>)>>)
              /\ StatsOf(i).totalDependencies = 3
              /\ StatsOf(i).directDependencies = 2
        /\ DiamondSearch(i, DeepDiamondReg) =>
              /\ TreeOf(i).children[1].children = <<Node(<<"d">>, <<Leaf(<<"e">>)>>)>>
              /\ TreeOf(i).children[2].children = <<Node(<<"d">>, <<Leaf(<<"e">>)>>)>>
              /\ StatsOf(i).totalDependencies = 4
              /\ StatsOf(i).directDependencies = 2

DiamondSearched ==
    /\ \E i \in DOMAIN searches : DiamondSearch(i, DiamondReg)

\* C4: a failing fetch of a dependency never fails the search; the failing
\* dependency is a childless node, and every node that was expanded has one
\* child per entry of its requirement list, in list order.
ChildFailuresAbsorbed ==
    \A i \in DOMAIN searches :
        /\ searches[i].rootResp = "ok" => searches[i].outcome # "error"
        /\ \A k \in DOMAIN searches[i].stack :
              LET f == searches[i].stack[k]
              IN  /\ Len(f.children) = f.idx - 1
                  /\ \A j \in 1..Len(f.children) : f.children[j].name = f.deps[j]
        /\ i \in Done /\ searches[i].rootResp = "ok" =>
              /\ i \in Built
              /\ \A p \in searches[i].failed :
                    /\ p \in Paths(TreeOf(i))
                    /\ NodeAt(TreeOf(i), p).children = <<>>
              /\ \A p \in Paths(TreeOf(i)) :
                    LET n == NodeAt(TreeOf(i), p)
                    IN  n.children # <<>> =>
                          ChildNames(n) =
                            extractRequiredDependencies(reg[ToLowerCase(n.name)])

\* a finished tree in which a dependency failed and the sibling listed after
\* it was fetched and expanded
FailedThenSibling ==
    \E i \in Built : \E p \in searches[i].failed :
        LET sib == [p EXCEPT ![Len(p)] = @ + 1]
        IN  /\ sib \in Paths(TreeOf(i))
            /\ NodeAt(TreeOf(i), sib).children # <<>>

\* C5: a non-success status for the root request ends the search in the error
\* outcome, with a message containing the package name, without any
\* dependency fetch, tree or stats, and without showing the results panel.
RootNotFound ==
    [][\A i \in DOMAIN searches :
          (searches[i].pc = "root" /\ searches'[i].rootResp = "notok") =>
              /\ searches'[i].pc = "done"
              /\ searches'[i].outcome = "error"
              /\ searches'[i].message = NotFoundMsg(searches[i].name)
              /\ Includes(searches'[i].message, searches[i].name)
              /\ searches'[i].tree = <<>>
              /\ searches'[i].stats = <<>>
              /\ searches'[i].depFetches = 0
              /\ error'
              /\ errorText' = searches'[i].message
              /\ results' = results
              /\ rendered' = rendered]_vars

RootWasNotFound ==
    \E i \in Done : searches[i].rootResp = "notok" /\ error /\ ~results

\* the page shows the outcome of search i and nothing else
ShowsOutcomeOf(i) ==
    IF searches[i].outcome = "results"
    THEN /\ results
         /\ ~error
         /\ rendered = <<[package |-> searches[i].name, tree |-> TreeOf(i),
                          stats |-> StatsOf(i)]>>
    ELSE /\ error
         /\ ~results
         /\ errorText = searches[i].message

\* C6: when a search was started while an earlier one was in flight, then
\* once all have finished the page shows the outcome of the most recently
\* started search only.
StaleDiscarded ==
    (/\ Len(searches) >= 2
     /\ InFlight = {}
     /\ searches[Len(searches)].overlapped) => ShowsOutcomeOf(Len(searches))

\* C7 as stated: a root fetch that fails by transport error or malformed JSON
\* surfaces the same message as a not-found root.
RootThrowSameAsNotFound ==
    \A i \in Done : searches[i].rootResp = "throw" =>
        searches[i].message = NotFoundMsg(searches[i].name)

\* C7 amended: a root fetch that fails by transport error or malformed JSON
\* ends in the error outcome without a tree, like a not-found root, but the
\* message is the thrown exception's own, not the not-found message.
RootThrowOwnMessage ==
    \A i \in Done : searches[i].rootResp = "throw" =>
        /\ searches[i].outcome = "error"
        /\ searches[i].tree = <<>>
        /\ searches[i].message = searches[i].thrown
        /\ searches[i].message # NotFoundMsg(searches[i].name)

RootThrew == \E i \in Done : searches[i].rootResp = "throw"

\* C8: extractRequiredDependencies returns the nine-step normalisation of
\* each raw specifier, rejected ones dropped, deduplicated in first-seen
\* order.
ExtractIsNineSteps ==
    extracted # <<>> => extracted[1] = NineStepsList(requiresDist)

\* a call whose list had a rejected entry or a repeated name, and a name in
\* capitals in front of a parenthesis
ExtractedInteresting ==
    /\ extracted # <<>>
    /\ requiresDist.present
    /\ Len(extracted[1]) >= 1
    /\ Len(extracted[1]) < Len(requiresDist.requires_dist)
    /\ \E k \in DOMAIN requiresDist.requires_dist :
          LET raw == requiresDist.requires_dist[k]
          IN  /\ raw # ToLowerCase(raw)
              /\ StripParen(raw) # raw

\* C9: no node lies deeper than depth 4, a node at depth 4 has no children,
\* no request is issued for a dependency of a node at depth 4, and
\* stats.maxDepth is at most 4.
DepthBound ==
    \A i \in DOMAIN searches :
        /\ \A k \in DOMAIN searches[i].stack : searches[i].stack[k].depth < 4
        /\ i \in Built =>
              /\ \A p \in Paths(TreeOf(i)) :
                    /\ Len(p) <= 4
                    /\ Len(p) = 4 => NodeAt(TreeOf(i), p).children = <<>>
              /\ StatsOf(i).maxDepth <= 4

\* a finished tree with a node at depth 4 whose package has requirements
DepthFourReached ==
    \E i \in Built : \E p \in Paths(TreeOf(i)) :
        /\ Len(p) = 4
        /\ extractRequiredDependencies(reg[NodeAt(TreeOf(i), p).name]) # <<>>

\* C10: the error panel and the results panel are never both visible, and
\* the loading indicator is visible while a search is in flight.
PanelConsistency ==
    /\ ~(error /\ results)
    /\ InFlight # {} => loading

====
